---- MODULE Spec2Model ----
(***************************************************************************)
(* Model of the Stablfy gateway (src/gateway.py): the shared-secret auth   *)
(* gate, the SkyNet odds proxy with its two-variant date negotiation and   *)
(* row normalisation, and the iReel chat proxy.                            *)
(*                                                                         *)
(* One client request is followed from arrival to its response.  The       *)
(* request-local state is the record req; the handler's steps are          *)
(* operators from a request record (and an input) to the next record, cut  *)
(* at the handler's only suspension points, the awaited upstream calls.    *)
(*                                                                         *)
(* Spec serves single requests over the full range of inputs.  SpecConc    *)
(* interleaves the requests of several clients, each running the same      *)
(* steps on its own record in reqs.  SpecLive is Spec with the fairness    *)
(* that the event loop and the upstream timeouts provide.                  *)
(***************************************************************************)
EXTENDS Integers, Sequences, FiniteSets, TLC

VARIABLES
    APP_TOKEN,        \* gateway.py:21
    IREEL_API_KEY,    \* gateway.py:23
    SKYNET_BASE_URL,  \* gateway.py:26
    SKYNET_API_KEY,   \* gateway.py:27
    req,              \* the request being served: position, locals, response
    reqs              \* requests served concurrently, one per client

vars == <<APP_TOKEN, IREEL_API_KEY, SKYNET_BASE_URL, SKYNET_API_KEY, req, reqs>>

\* Longest upstream row collection the model enumerates.
MaxRows == 2

(***************************************************************************)
(* JSON scalars, as Python sees them after resp.json().  k is the kind,    *)
(* n the content: an int's value, a float's value in tenths, the number a  *)
(* digit string spells, or the identity of any other string.  "absent"     *)
(* marks a key that the object does not have.                              *)
(***************************************************************************)
Absent     == [k |-> "absent", n |-> 0]
None       == [k |-> "null",   n |-> 0]
JInt(i)    == [k |-> "int",    n |-> i]
JFloat(t)  == [k |-> "float",  n |-> t]
JNumStr(i) == [k |-> "numstr", n |-> i]
JStr(i)    == [k |-> "str",    n |-> i]
JEmptyStr  == [k |-> "emptystr", n |-> 0]

\* Python truth value of a scalar, as used by `a or b`.
Truthy(v) ==
    CASE v.k = "null"     -> FALSE
      [] v.k = "absent"   -> FALSE
      [] v.k = "int"      -> v.n # 0
      [] v.k = "float"    -> v.n # 0
      [] v.k = "emptystr" -> FALSE
      [] OTHER            -> TRUE

\* Python `a or b`.
Or(a, b) == IF Truthy(a) THEN a ELSE b

RowKeys == {"tabNo", "tabNumber", "raceNo", "raceNumber", "venue", "track",
            "aiPrice", "price", "tabPrice", "tabCurrentPrice", "rank"}

\* dict.get(key): None when the key is missing.
Get(row, key) == IF row.f[key].k = "absent" THEN None ELSE row.f[key]

\* int(v): the coerced integer, or the exception int() raises.
IntOf(v) ==
    CASE v.k = "int"    -> [ok |-> TRUE,  n |-> v.n, exc |-> "none"]
      [] v.k = "float"  -> [ok |-> TRUE,  n |-> v.n \div 10, exc |-> "none"]
      [] v.k = "numstr" -> [ok |-> TRUE,  n |-> v.n, exc |-> "none"]
      [] v.k = "null"   -> [ok |-> FALSE, n |-> 0, exc |-> "TypeError"]
      [] OTHER          -> [ok |-> FALSE, n |-> 0, exc |-> "ValueError"]

\* pydantic validation of an Optional[float] field (price, tabCurrentPrice).
FloatField(v) ==
    CASE v.k = "null"   -> [ok |-> TRUE,  v |-> None]
      [] v.k = "int"    -> [ok |-> TRUE,  v |-> JFloat(v.n * 10)]
      [] v.k = "float"  -> [ok |-> TRUE,  v |-> v]
      [] v.k = "numstr" -> [ok |-> TRUE,  v |-> JFloat(v.n * 10)]
      [] OTHER          -> [ok |-> FALSE, v |-> None]

\* pydantic validation of an Optional[int] field (rank).
IntField(v) ==
    CASE v.k = "null"   -> [ok |-> TRUE,  v |-> None]
      [] v.k = "int"    -> [ok |-> TRUE,  v |-> v]
      [] v.k = "numstr" -> [ok |-> TRUE,  v |-> JInt(v.n)]
      [] OTHER          -> [ok |-> FALSE, v |-> None]

\* pydantic validation of an Optional[str] field (track).
StrField(v) ==
    CASE v.k = "null"     -> [ok |-> TRUE,  v |-> None]
      [] v.k = "str"      -> [ok |-> TRUE,  v |-> v]
      [] v.k = "numstr"   -> [ok |-> TRUE,  v |-> v]
      [] v.k = "emptystr" -> [ok |-> TRUE,  v |-> v]
      [] OTHER            -> [ok |-> FALSE, v |-> None]

(***************************************************************************)
(* Elements of an upstream row collection.  isdict tells a JSON object     *)
(* from any other element; f gives the value under each key the proxy      *)
(* reads, Absent where the object has no such key.                         *)
(***************************************************************************)
NoFields == [key \in RowKeys |-> Absent]
Obj(g)   == [isdict |-> TRUE,  f |-> g]
NonDict  == [isdict |-> FALSE, f |-> NoFields]

\* The values a row of the response model SkynetPrice carries.
SkynetPrice(track_name, race, tab, ai, tabp, rk) ==
    [track |-> track_name, raceNumber |-> race, tabNumber |-> tab,
     price |-> ai, tabCurrentPrice |-> tabp, rank |-> rk]

\* One pass of the body of `for row in raw_rows`: the row is skipped,
\* appended, or an exception leaves the loop and the handler.
NormaliseRow(row) ==
    IF ~row.isdict
    THEN [kind |-> "skip", exc |-> "none", price |-> SkynetPrice(None, 0, 0, None, None, None)]
    ELSE
    LET tab_no     == Or(Get(row, "tabNo"), Get(row, "tabNumber"))
        race_no    == Or(Get(row, "raceNo"), Get(row, "raceNumber"))
        track_name == Or(Get(row, "venue"), Get(row, "track"))
        ai         == Or(Get(row, "aiPrice"), Get(row, "price"))
        tabp       == Or(Get(row, "tabPrice"), Get(row, "tabCurrentPrice"))
        rk         == Get(row, "rank")
        nothing    == SkynetPrice(None, 0, 0, None, None, None)
    IN  IF tab_no.k = "null" \/ race_no.k = "null"
        THEN [kind |-> "skip", exc |-> "none", price |-> nothing]
        ELSE IF ~IntOf(race_no).ok
        THEN [kind |-> "raise", exc |-> IntOf(race_no).exc, price |-> nothing]
        ELSE IF ~IntOf(tab_no).ok
        THEN [kind |-> "raise", exc |-> IntOf(tab_no).exc, price |-> nothing]
        ELSE IF ~(StrField(track_name).ok /\ FloatField(ai).ok
                  /\ FloatField(tabp).ok /\ IntField(rk).ok)
        THEN [kind |-> "raise", exc |-> "ValidationError", price |-> nothing]
        ELSE [kind |-> "append", exc |-> "none",
              price |-> SkynetPrice(StrField(track_name).v, IntOf(race_no).n,
                                    IntOf(tab_no).n, FloatField(ai).v,
                                    FloatField(tabp).v, IntField(rk).v)]

\* The loop with insert(0, ...) in place of append: newest row first.
RECURSIVE NormaliseRows_prepend(_, _)
NormaliseRows_prepend(raw_rows, prices) ==
    IF raw_rows = <<>>
    THEN [exc |-> "none", prices |-> prices]
    ELSE LET r == NormaliseRow(Head(raw_rows))
         IN  CASE r.kind = "raise"  -> [exc |-> r.exc, prices |-> <<>>]
               [] r.kind = "append" ->
                    NormaliseRows_prepend(Tail(raw_rows), <<r.price>> \o prices)
               [] OTHER             -> NormaliseRows_prepend(Tail(raw_rows), prices)

\* The loop over raw_rows: the prices built, or the first exception raised.
RECURSIVE NormaliseRows(_, _)
NormaliseRows(raw_rows, prices) ==
    IF raw_rows = <<>>
    THEN [exc |-> "none", prices |-> prices]
    ELSE LET r == NormaliseRow(Head(raw_rows))
         IN  CASE r.kind = "raise"  -> [exc |-> r.exc, prices |-> <<>>]
               [] r.kind = "append" -> NormaliseRows(Tail(raw_rows), Append(prices, r.price))
               [] OTHER             -> NormaliseRows(Tail(raw_rows), prices)

(***************************************************************************)
(* Decoded JSON documents.  A value under "rows" or "prices" (and the      *)
(* document itself) is a list of elements, a string, a number, null, or    *)
(* missing.  A document of kind "dict" carries the values under its two    *)
(* probed keys.                                                            *)
(***************************************************************************)
JList(items) == [t |-> "list",   items |-> items, n |-> 0]
JNumber(i)   == [t |-> "int",    items |-> <<>>,  n |-> i]
JText        == [t |-> "str",    items |-> <<>>,  n |-> 1]
JNull        == [t |-> "null",   items |-> <<>>,  n |-> 0]
JMissing     == [t |-> "absent", items |-> <<>>,  n |-> 0]

Doc(v)             == [t |-> v.t, items |-> v.items, n |-> v.n,
                       rows |-> JMissing, prices |-> JMissing]
DictDoc(rws, prcs) == [t |-> "dict", items |-> <<>>, n |-> 0,
                       rows |-> rws, prices |-> prcs]

\* Python truth value of a value found under a key.
TruthyValue(w) ==
    CASE w.t = "list" -> w.items # <<>>
      [] w.t = "int"  -> w.n # 0
      [] w.t = "str"  -> TRUE
      [] OTHER        -> FALSE

\* data.get("rows") or data.get("prices") or []
DictRows(data) ==
    IF TruthyValue(data.rows) THEN data.rows
    ELSE IF TruthyValue(data.prices) THEN data.prices
    ELSE JList(<<>>)

\* Lines 253-260: the row collection taken from the decoded document.
RawRows(data) ==
    CASE data.t = "list" -> JList(data.items)
      [] data.t = "dict" -> DictRows(data)
      [] OTHER           -> JList(<<>>)

\* Lines 262-287: iterate raw_rows and build the response rows.  Iterating
\* a number raises TypeError; iterating a string yields its characters,
\* none of which is a dict.
Normalise(data) ==
    LET raw_rows == RawRows(data)
    IN  CASE raw_rows.t = "list" -> NormaliseRows(raw_rows.items, <<>>)
          [] raw_rows.t = "str"  -> NormaliseRows(<<NonDict>>, <<>>)
          [] OTHER               -> [exc |-> "TypeError", prices |-> <<>>]

(***************************************************************************)
(* Dates.  A date string is a sequence of one-character strings.           *)
(***************************************************************************)
Digits == <<"0", "1", "2", "3", "4", "5", "6", "7", "8", "9">>

IsDigit(c)  == \E j \in 1..10 : Digits[j] = c
DigitVal(c) == (CHOOSE j \in 1..10 : Digits[j] = c) - 1

\* The number a run of digits spells.
RECURSIVE NumVal(_)
NumVal(cs) ==
    IF cs = <<>> THEN 0
    ELSE NumVal(SubSeq(cs, 1, Len(cs) - 1)) * 10 + DigitVal(cs[Len(cs)])

IsLeap(y) == (y % 4 = 0 /\ y % 100 # 0) \/ y % 400 = 0

DaysInMonth(y, m) ==
    IF m = 2 THEN (IF IsLeap(y) THEN 29 ELSE 28)
    ELSE IF m \in {4, 6, 9, 11} THEN 30 ELSE 31

NoDate == [ok |-> FALSE, year |-> 0, month |-> 0, day |-> 0]

\* datetime.date.fromisoformat on a YYYY-MM-DD string: the date, or
\* ValueError (ok = FALSE) when the text is not a real calendar date.
fromisoformat(s) ==
    IF Len(s) # 10 THEN NoDate
    ELSE IF s[5] # "-" \/ s[8] # "-" THEN NoDate
    ELSE IF \E j \in {1, 2, 3, 4, 6, 7, 9, 10} : ~IsDigit(s[j]) THEN NoDate
    ELSE LET y == NumVal(SubSeq(s, 1, 4))
             m == NumVal(SubSeq(s, 6, 7))
             d == NumVal(SubSeq(s, 9, 10))
         IN  IF y < 1 \/ m < 1 \/ m > 12 THEN NoDate
             ELSE IF d < 1 \/ d > DaysInMonth(y, m) THEN NoDate
             ELSE [ok |-> TRUE, year |-> y, month |-> m, day |-> d]

\* %b in the C locale.
MonthAbbr ==
    << <<"J","a","n">>, <<"F","e","b">>, <<"M","a","r">>, <<"A","p","r">>,
       <<"M","a","y">>, <<"J","u","n">>, <<"J","u","l">>, <<"A","u","g">>,
       <<"S","e","p">>, <<"O","c","t">>, <<"N","o","v">>, <<"D","e","c">> >>

\* The decimal digits of n, without padding: %Y as the C library of a Linux
\* build renders it (a year below 1000 comes out with fewer than four digits).
RECURSIVE DecDigits(_)
DecDigits(n) ==
    IF n < 10 THEN <<Digits[n + 1]>>
    ELSE Append(DecDigits(n \div 10), Digits[(n % 10) + 1])

\* d.strftime("%d-%b-%Y"): zero-padded day, month abbreviation, year.
strftime(d) ==
    <<Digits[(d.day \div 10) + 1], Digits[(d.day % 10) + 1], "-">>
      \o MonthAbbr[d.month] \o <<"-">> \o DecDigits(d.year)

Upper == <<"J", "F", "M", "A", "S", "O", "N", "D">>
LowerOf == <<"j", "f", "m", "a", "s", "o", "n", "d">>

\* str.lower(), character by character.
lower(s) ==
    [j \in 1..Len(s) |->
        IF \E u \in 1..Len(Upper) : Upper[u] = s[j]
        THEN LowerOf[CHOOSE u \in 1..Len(Upper) : Upper[u] = s[j]]
        ELSE s[j]]

\* Lines 208-210: the variants tried, in order.
DateVariants(d) == <<lower(strftime(d)), strftime(d)>>

(***************************************************************************)
(* The request.                                                            *)
(***************************************************************************)
NoRequest ==
    [pc |-> "idle", route |-> "none", header_present |-> FALSE,
     x_app_token |-> "", date |-> <<>>, handler_ran |-> FALSE,
     date_variants |-> <<>>, i |-> 1, last_exc |-> "none",
     calls |-> <<>>, outcomes |-> <<>>,
     status_code |-> 0, exc |-> "none", detail |-> "", prices |-> <<>>,
     response |-> ""]

\* raise HTTPException(status_code, detail): the client gets a JSON error body.
HTTPException(r, status_code, detail) ==
    [r EXCEPT !.pc = "done", !.status_code = status_code,
              !.exc = "HTTPException", !.detail = detail]

\* An exception nothing catches: the server answers 500 Internal Server Error.
Unhandled(r, exc) ==
    [r EXCEPT !.pc = "done", !.status_code = 500, !.exc = exc,
              !.detail = "Internal Server Error"]

\* verify_app_token without the configuration check of lines 44-48.
verify_app_token_unchecked(r) ==
    IF r.x_app_token # APP_TOKEN
    THEN HTTPException(r, 401, "Invalid app token")
    ELSE [r EXCEPT !.pc = "handler"]

\* Lines 40-51.  The value returned is the request after the dependency ran:
\* rejected, or handed to the route handler.
verify_app_token(r) ==
    IF APP_TOKEN = ""
    THEN HTTPException(r, 500, "Gateway APP_TOKEN not configured")
    ELSE IF r.x_app_token # APP_TOKEN
    THEN HTTPException(r, 401, "Invalid app token")
    ELSE [r EXCEPT !.pc = "handler"]

\* dependencies=[Depends(verify_app_token)] with x_app_token = Header(...):
\* a request without the required header fails parameter validation (422)
\* and the dependency is never called.
Depends(r) ==
    IF ~r.header_present
    THEN [r EXCEPT !.pc = "done", !.status_code = 422,
                   !.exc = "RequestValidationError", !.detail = "Field required"]
    ELSE verify_app_token(r)

\* skynet_entry without the try/except of lines 199-205: the ValueError of
\* fromisoformat escapes the handler.
skynet_entry_uncaught(r) ==
    LET r0 == [r EXCEPT !.handler_ran = TRUE]
        d  == fromisoformat(r.date)
    IN  IF SKYNET_BASE_URL = ""
        THEN HTTPException(r0, 500, "SkyNet not configured")
        ELSE IF ~d.ok
        THEN Unhandled(r0, "ValueError")
        ELSE [r0 EXCEPT !.pc = "loop", !.date_variants = DateVariants(d),
                        !.i = 1, !.last_exc = "none"]

\* skynet_entry with the two checks in the other order: date first.
skynet_entry_date_first(r) ==
    LET r0 == [r EXCEPT !.handler_ran = TRUE]
        d  == fromisoformat(r.date)
    IN  IF ~d.ok
        THEN HTTPException(r0, 400, "date must be in ISO format YYYY-MM-DD")
        ELSE IF SKYNET_BASE_URL = ""
        THEN HTTPException(r0, 500, "SkyNet not configured")
        ELSE [r0 EXCEPT !.pc = "loop", !.date_variants = DateVariants(d),
                        !.i = 1, !.last_exc = "none"]

\* Lines 195-212: configuration and date checks, then the variants.
skynet_entry(r) ==
    LET r0 == [r EXCEPT !.handler_ran = TRUE]
        d  == fromisoformat(r.date)
    IN  IF SKYNET_BASE_URL = ""
        THEN HTTPException(r0, 500, "SkyNet not configured")
        ELSE IF ~d.ok
        THEN HTTPException(r0, 400, "date must be in ISO format YYYY-MM-DD")
        ELSE [r0 EXCEPT !.pc = "loop", !.date_variants = DateVariants(d),
                        !.i = 1, !.last_exc = "none"]

\* Lines 217-225: the next variant's GET leaves for the upstream.
skynet_get(r) ==
    [r EXCEPT !.pc = "await",
              !.calls = Append(@, [method |-> "GET",
                                   meetingDate |-> r.date_variants[r.i],
                                   apikey |-> SKYNET_API_KEY])]

\* An except branch of lines 228-250: remember the exception, next variant.
NextVariant(r, exc) ==
    [r EXCEPT !.pc = "loop", !.last_exc = exc, !.i = @ + 1]

\* httpx.RequestError and its subclasses other than ReadTimeout.
RequestErrors == {"ConnectTimeout", "ConnectError"}

\* skynet_response treating a document that is neither a list nor an object
\* with "rows" or "prices" as one more failed attempt.
skynet_response_strict(r, o) ==
    LET r1 == [r EXCEPT !.outcomes = Append(@, o)]
    IN  IF o.kind = "ReadTimeout" THEN NextVariant(r1, "ReadTimeout")
        ELSE IF o.kind \in RequestErrors THEN NextVariant(r1, o.kind)
        ELSE IF o.status >= 400 THEN NextVariant(r1, "HTTPStatusError")
        ELSE IF o.body # "json" THEN Unhandled(r1, "JSONDecodeError")
        ELSE IF \/ o.data.t \notin {"list", "dict"}
                \/ /\ o.data.t = "dict"
                   /\ o.data.rows.t = "absent" /\ o.data.prices.t = "absent"
        THEN NextVariant(r1, "MalformedPayload")
        ELSE LET n == Normalise(o.data)
             IN  IF n.exc # "none" THEN Unhandled(r1, n.exc)
                 ELSE [r1 EXCEPT !.pc = "done", !.status_code = 200,
                                 !.prices = n.prices]

\* Lines 225-287: the awaited GET completes with outcome o.
skynet_response(r, o) ==
    LET r1 == [r EXCEPT !.outcomes = Append(@, o)]
    IN  IF o.kind = "ReadTimeout" THEN NextVariant(r1, "ReadTimeout")
        ELSE IF o.kind \in RequestErrors THEN NextVariant(r1, o.kind)
        ELSE IF o.status >= 400 THEN NextVariant(r1, "HTTPStatusError")
        ELSE IF o.body # "json" THEN Unhandled(r1, "JSONDecodeError")
        ELSE LET n == Normalise(o.data)
             IN  IF n.exc # "none" THEN Unhandled(r1, n.exc)
                 ELSE [r1 EXCEPT !.pc = "done", !.status_code = 200,
                                 !.prices = n.prices]

\* The exhausted outcome surfaced as 502 instead of an empty list.
skynet_give_up_502(r) ==
    HTTPException(r, 502, "SkyNet upstream error")

\* Lines 289-295: every variant failed; answer with an empty list.
skynet_give_up(r) ==
    [r EXCEPT !.pc = "done", !.status_code = 200, !.prices = <<>>]

\* Lines 100-120: key check, then the POST leaves for iReel.
ireel_entry(r) ==
    LET r0 == [r EXCEPT !.handler_ran = TRUE]
    IN  IF IREEL_API_KEY = ""
        THEN HTTPException(r0, 500, "IREEL_API_KEY not configured")
        ELSE [r0 EXCEPT !.pc = "await",
                        !.calls = Append(@, [method |-> "POST",
                                             meetingDate |-> <<>>,
                                             apikey |-> IREEL_API_KEY])]

\* ireel_response answering 502 for an upstream error status instead of
\* bubbling the status up.
ireel_response_502(r, o) ==
    LET r1 == [r EXCEPT !.outcomes = Append(@, o)]
    IN  IF o.kind # "response"
        THEN HTTPException(r1, 502, "iReel upstream error")
        ELSE IF o.status >= 400
        THEN HTTPException(r1, 502, "iReel error")
        ELSE IF o.body = "empty"
        THEN HTTPException(r1, 502, "Empty response from iReel")
        ELSE IF o.body # "json"
        THEN HTTPException(r1, 502, "Invalid JSON from iReel")
        ELSE IF o.chat = "not_object" THEN Unhandled(r1, "AttributeError")
        ELSE [r1 EXCEPT !.pc = "done", !.status_code = 200,
                        !.response = IF o.chat = "object_text" THEN "text" ELSE ""]

\* Lines 121-158: the awaited POST completes with outcome o.  o.chat names
\* the shape of a JSON body: an object with a text "response", an object
\* without one, or a document that is not an object.
ireel_response(r, o) ==
    LET r1 == [r EXCEPT !.outcomes = Append(@, o)]
    IN  IF o.kind # "response"
        THEN HTTPException(r1, 502, "iReel upstream error")
        ELSE IF o.status >= 400
        THEN HTTPException(r1, o.status,
                           IF o.body = "empty" THEN "iReel error" ELSE "body_text")
        ELSE IF o.body = "empty"
        THEN HTTPException(r1, 502, "Empty response from iReel")
        ELSE IF o.body # "json"
        THEN HTTPException(r1, 502, "Invalid JSON from iReel")
        ELSE IF o.chat = "not_object" THEN Unhandled(r1, "AttributeError")
        ELSE [r1 EXCEPT !.pc = "done", !.status_code = 200,
                        !.response = IF o.chat = "object_text" THEN "text" ELSE ""]

(***************************************************************************)
(* Inputs: what clients send and what the upstreams answer.                *)
(***************************************************************************)
Tokens == {"", "secret", "wrong"}

DateInputs ==
    { <<"2","0","2","5","-","1","2","-","0","5">>,    \* a real date
      <<"2","0","2","4","-","0","2","-","2","9">>,    \* 29 February, leap year
      <<"0","9","9","9","-","0","1","-","0","9">>,    \* a year below 1000
      <<"2","0","2","5","-","0","2","-","2","9">>,    \* 29 February, no leap year
      <<"2","0","2","5","-","1","3","-","0","1">>,    \* month 13
      <<"0","5","-","1","2","-","2","0","2","5">>,    \* day first
      <<"t","o","d","a","y">> }

Row(race, raceAlias, tab, tabAlias) ==
    [NoFields EXCEPT !["raceNo"] = race, !["raceNumber"] = raceAlias,
                     !["tabNo"] = tab, !["tabNumber"] = tabAlias]

\* Elements an upstream row collection is built from.
Elems ==
    { \* primary names, all fields
      Obj([Row(JInt(2), Absent, JInt(4), Absent) EXCEPT
             !["venue"] = JStr(1), !["aiPrice"] = JFloat(35),
             !["tabPrice"] = JFloat(40)]),
      \* the same values under the alias names
      Obj([Row(Absent, JInt(2), Absent, JInt(4)) EXCEPT
             !["track"] = JStr(1), !["price"] = JFloat(35),
             !["tabCurrentPrice"] = JFloat(40)]),
      \* both names present with different values, and a rank
      Obj([Row(JInt(1), JInt(3), JInt(1), JInt(5)) EXCEPT !["rank"] = JInt(1)]),
      \* race number 0
      Obj(Row(JInt(0), Absent, JInt(4), Absent)),
      \* 0 under the primary names, other values under the aliases
      Obj(Row(JInt(0), JInt(3), JInt(0), JInt(5))),
      \* race number 0 under both names
      Obj(Row(JInt(0), JInt(0), JInt(1), Absent)),
      \* tab number that is not a number
      Obj(Row(JInt(1), Absent, JStr(2), Absent)),
      \* no tab number
      Obj(Row(JInt(1), Absent, Absent, Absent)),
      \* no identifiers at all
      Obj([NoFields EXCEPT !["venue"] = JStr(1)]),
      \* price that is not a number
      Obj([Row(JInt(1), Absent, JInt(2), Absent) EXCEPT !["aiPrice"] = JStr(2)]),
      \* identifiers as digit strings
      Obj(Row(JNumStr(3), Absent, JNumStr(4), Absent)),
      \* AI price 0 with a price under the alias
      Obj([Row(JInt(1), Absent, JInt(3), Absent) EXCEPT
             !["aiPrice"] = JInt(0), !["price"] = JFloat(35)]),
      \* an element that is not an object
      NonDict }

\* All row collections of at most MaxRows elements.
RowLists == UNION { [1..len -> Elems] : len \in 0..MaxRows }

\* Row collections used inside wrapped documents.
ShortLists == { l \in RowLists : Len(l) <= 1 }

Docs ==
    { Doc(JList(l)) : l \in RowLists }
      \cup { DictDoc(JList(l), JMissing) : l \in ShortLists }
      \cup { DictDoc(JMissing, JList(l)) : l \in ShortLists }
      \cup { DictDoc(JList(<<>>), JList(l)) : l \in ShortLists }
      \cup { DictDoc(JMissing, JMissing), DictDoc(JNumber(5), JMissing),
             DictDoc(JText, JMissing), DictDoc(JNull, JNumber(0)),
             Doc(JNumber(7)), Doc(JText), Doc(JNull) }

Outcome(kind, status, body, data, chat) ==
    [kind |-> kind, status |-> status, body |-> body, data |-> data, chat |-> chat]

\* What one GET to the odds upstream can come back with.
SkynetOutcomes ==
    { Outcome(k, 0, "empty", Doc(JNull), "none") :
          k \in {"ReadTimeout"} \cup RequestErrors }
      \cup { Outcome("response", st, "text", Doc(JNull), "none") : st \in {404, 503} }
      \cup { Outcome("response", 200, b, Doc(JNull), "none") : b \in {"text", "empty"} }
      \cup { Outcome("response", 200, "json", d, "none") : d \in Docs }

\* What the POST to iReel can come back with.
IreelOutcomes ==
    { Outcome("ConnectError", 0, "empty", Doc(JNull), "none") }
      \cup { Outcome("response", st, b, Doc(JNull), "none") :
                 st \in {200, 404, 500}, b \in {"text", "empty"} }
      \cup { Outcome("response", 200, "json", Doc(JNull), c) :
                 c \in {"object_text", "object_other", "not_object"} }

\* The clients whose requests SpecConc interleaves.
Clients == {"a", "b"}

\* What these clients send and what the upstream answers them.
ConcDates ==
    { <<"2","0","2","5","-","1","2","-","0","5">>,
      <<"2","0","2","4","-","0","2","-","2","9">>,
      <<"2","0","2","5","-","1","3","-","0","1">> }

ConcOutcomes ==
    { o \in SkynetOutcomes :
        \/ o.kind \in {"ReadTimeout", "ConnectError"}
        \/ o.kind = "response" /\ o.status = 503
        \/ /\ o.kind = "response" /\ o.status = 200 /\ o.body = "json"
           /\ o.data.t = "list" /\ Len(o.data.items) = 1
           /\ o.data.items[1].isdict
           /\ o.data.items[1].f["rank"].k = "int" \/ o.data.items[1].f["venue"].k = "str" }

(***************************************************************************)
(* The state machine.                                                      *)
(***************************************************************************)
Init ==
    /\ APP_TOKEN \in {"", "secret"}
    /\ IREEL_API_KEY \in {"", "ireel-key"}
    /\ SKYNET_BASE_URL \in {"", "https://pf"}
    /\ SKYNET_API_KEY \in {"", "skynet-key"}
    /\ req = NoRequest
    /\ reqs = [c \in Clients |-> NoRequest]

Config == <<APP_TOKEN, IREEL_API_KEY, SKYNET_BASE_URL, SKYNET_API_KEY>>

\* A client request reaches the gateway.
Arrive ==
    /\ req.pc = "idle"
    /\ \E route \in {"skynet", "ireel"}, present \in BOOLEAN,
          tok \in Tokens, date \in DateInputs :
          \* no header, no header value; the chat route has no date
          /\ present \/ tok = ""
          /\ route = "ireel" => date = <<"t","o","d","a","y">>
          /\ req' = [req EXCEPT !.pc = "auth", !.route = route,
                                !.header_present = present,
                                !.x_app_token = tok, !.date = date]
    /\ UNCHANGED <<Config, reqs>>

\* The route's dependency runs before the handler.
Authenticate ==
    /\ req.pc = "auth"
    /\ req' = Depends(req)
    /\ UNCHANGED <<Config, reqs>>

SkynetStart ==
    /\ req.pc = "handler" /\ req.route = "skynet"
    /\ req' = skynet_entry(req)
    /\ UNCHANGED <<Config, reqs>>

SkynetGet ==
    /\ req.pc = "loop" /\ req.i <= Len(req.date_variants)
    /\ req' = skynet_get(req)
    /\ UNCHANGED <<Config, reqs>>

SkynetResponse ==
    /\ req.pc = "await" /\ req.route = "skynet"
    /\ \E o \in SkynetOutcomes : req' = skynet_response(req, o)
    /\ UNCHANGED <<Config, reqs>>

SkynetGiveUp ==
    /\ req.pc = "loop" /\ req.i > Len(req.date_variants)
    /\ req' = skynet_give_up(req)
    /\ UNCHANGED <<Config, reqs>>

IreelStart ==
    /\ req.pc = "handler" /\ req.route = "ireel"
    /\ req' = ireel_entry(req)
    /\ UNCHANGED <<Config, reqs>>

IreelResponse ==
    /\ req.pc = "await" /\ req.route = "ireel"
    /\ \E o \in IreelOutcomes : req' = ireel_response(req, o)
    /\ UNCHANGED <<Config, reqs>>

Next ==
    \/ Arrive
    \/ Authenticate
    \/ SkynetStart
    \/ SkynetGet
    \/ SkynetResponse
    \/ SkynetGiveUp
    \/ IreelStart
    \/ IreelResponse

Spec == Init /\ [][Next]_vars

\* Spec with progress: the event loop runs every handler step that is ready
\* and every awaited upstream call completes, by a response or by the
\* connect/read timeouts of line 215 (60 s for iReel, line 119).
SpecLive ==
    /\ Spec
    /\ WF_vars(Authenticate)
    /\ WF_vars(SkynetStart)
    /\ WF_vars(SkynetGet)
    /\ WF_vars(SkynetResponse)
    /\ WF_vars(SkynetGiveUp)
    /\ WF_vars(IreelStart)
    /\ WF_vars(IreelResponse)

(***************************************************************************)
(* Concurrent requests.  Every name a handler assigns (d, date_variants,   *)
(* last_exc, client, resp, data, raw_rows, prices) is a local of its own   *)
(* coroutine, so a step of client c replaces reqs[c] and nothing else.     *)
(***************************************************************************)

\* The loop state kept in module-level names instead: a step of one request
\* overwrites the variant index and last exception of all of them.
Store_shared(rs, c, r) ==
    [k \in DOMAIN rs |->
        IF k = c THEN r
        ELSE IF rs[k].pc \in {"loop", "await"}
        THEN [rs[k] EXCEPT !.i = r.i, !.last_exc = r.last_exc]
        ELSE rs[k]]

\* The effect of a step of client c's handler on the requests in flight.
Store(rs, c, r) == [rs EXCEPT ![c] = r]

ConcArrive(c) ==
    /\ reqs[c].pc = "idle"
    /\ \E date \in ConcDates :
          reqs' = Store(reqs, c, [reqs[c] EXCEPT !.pc = "auth", !.route = "skynet",
                                                 !.header_present = TRUE,
                                                 !.x_app_token = "secret",
                                                 !.date = date])
    /\ UNCHANGED <<Config, req>>

\* The steps of a request up to its next suspension point.
ConcStep(c) ==
    /\ reqs[c].pc \in {"auth", "handler", "loop"}
    /\ reqs' = Store(reqs, c,
                 CASE reqs[c].pc = "auth"    -> Depends(reqs[c])
                   [] reqs[c].pc = "handler" -> skynet_entry(reqs[c])
                   [] reqs[c].i <= Len(reqs[c].date_variants) -> skynet_get(reqs[c])
                   [] OTHER                  -> skynet_give_up(reqs[c]))
    /\ UNCHANGED <<Config, req>>

ConcResponse(c) ==
    /\ reqs[c].pc = "await"
    /\ \E o \in ConcOutcomes : reqs' = Store(reqs, c, skynet_response(reqs[c], o))
    /\ UNCHANGED <<Config, req>>

NextConc ==
    \E c \in Clients :
        \/ ConcArrive(c)
        \/ ConcStep(c)
        \/ ConcResponse(c)

SpecConc == Init /\ [][NextConc]_vars

(***************************************************************************)
(* Properties.                                                             *)
(***************************************************************************)

\* C1: the second GET is issued only after the first one failed, and when
\* the first attempt returns a successful response with a JSON body the
\* request ends with that attempt's normalised rows after exactly one call.
C1_FirstValidResponseWins ==
    req.route = "skynet" =>
      /\ Len(req.calls) >= 2 =>
           /\ Len(req.outcomes) >= 1
           /\ \/ req.outcomes[1].kind # "response"
              \/ req.outcomes[1].status >= 400
              \/ req.outcomes[1].body # "json"
      /\ ( /\ Len(req.outcomes) >= 1
           /\ req.outcomes[1].kind = "response"
           /\ req.outcomes[1].status < 400
           /\ req.outcomes[1].body = "json" ) =>
           /\ req.pc = "done"
           /\ req.status_code = 200
           /\ req.prices = Normalise(req.outcomes[1].data).prices
           /\ Len(req.calls) = 1

\* C2: when the first attempt fails by timeout, transport error or HTTP
\* error status and the second returns 200 with a JSON list, the response is
\* the normalisation of the second payload after exactly two calls, the
\* lowercase variant first and the title-case variant second.
C2_SecondVariantRecovers ==
    ( /\ req.route = "skynet"
      /\ Len(req.outcomes) = 2
      /\ req.outcomes[1].kind # "response" \/ req.outcomes[1].status >= 400
      /\ req.outcomes[2].kind = "response"
      /\ req.outcomes[2].status = 200
      /\ req.outcomes[2].body = "json"
      /\ req.outcomes[2].data.t = "list" ) =>
      /\ req.pc = "done"
      /\ req.status_code = 200
      /\ req.prices = Normalise(req.outcomes[2].data).prices
      /\ Len(req.calls) = 2
      /\ req.calls[1].meetingDate = lower(strftime(fromisoformat(req.date)))
      /\ req.calls[2].meetingDate = strftime(fromisoformat(req.date))

\* C3: when both attempts fail by timeout, transport error or HTTP error
\* status the request ends as a successful response with no rows after
\* exactly two upstream calls, and no request ever makes more than two.
C3_BothFailDegrades ==
    /\ Len(req.calls) <= 2
    /\ ( /\ req.route = "skynet"
         /\ req.pc = "done"
         /\ Len(req.outcomes) = 2
         /\ \A j \in 1..2 : \/ req.outcomes[j].kind # "response"
                            \/ req.outcomes[j].status >= 400 ) =>
         /\ req.status_code = 200
         /\ req.exc = "none"
         /\ req.prices = <<>>
         /\ Len(req.calls) = 2

C3_Witness ==
    /\ req.route = "skynet"
    /\ req.pc = "done"
    /\ Len(req.outcomes) = 2
    /\ req.outcomes[1].kind = "ReadTimeout"
    /\ req.outcomes[2].kind = "response" /\ req.outcomes[2].status = 503
    /\ req.last_exc = "HTTPStatusError"

\* C4: a successful response whose body is not JSON is recorded as a
\* failure and the loop advances to the next variant (after the last
\* variant, to the empty result); the request is not aborted.
C4_NonJsonAdvances ==
    \A j \in 1..Len(req.outcomes) :
      ( /\ req.route = "skynet"
        /\ req.outcomes[j].kind = "response"
        /\ req.outcomes[j].status < 400
        /\ req.outcomes[j].body # "json" ) =>
        /\ req.exc = "none"
        /\ \/ Len(req.calls) > j
           \/ req.pc = "loop" /\ req.i = j + 1 /\ req.last_exc # "none"
           \/ j = 2 /\ req.pc = "done" /\ req.status_code = 200 /\ req.prices = <<>>

\* C5: once an authenticated request with a valid date and a configured
\* base URL has reached the upstream, whatever the upstream answers the
\* client receives a successful response carrying rows, never an error
\* status or an unhandled exception.
C5_UpstreamFailuresAbsorbed ==
    ( /\ req.route = "skynet"
      /\ req.pc = "done"
      /\ Len(req.calls) >= 1 ) =>
      /\ req.status_code = 200
      /\ req.exc = "none"

\* The date inputs that name a real calendar day in ISO form.
RealDateInputs ==
    { <<"2","0","2","5","-","1","2","-","0","5">>,
      <<"0","9","9","9","-","0","1","-","0","9">>,
      <<"2","0","2","4","-","0","2","-","2","9">> }

\* C6 (as stated): every request to /skynet/prices whose date is not a real
\* ISO calendar date ends with status 400 and no upstream call.
C6_BadDateRejected ==
    ( /\ req.route = "skynet"
      /\ req.pc = "done"
      /\ req.date \notin RealDateInputs ) =>
      /\ req.status_code = 400
      /\ req.calls = <<>>

\* C6 (amended): no request to /skynet/prices whose date is not a real ISO
\* calendar date makes an upstream call, and when the request carries the
\* configured app token and the base URL is configured it ends with 400.
C6_BadDateRejectedAfterGates ==
    ( /\ req.route = "skynet"
      /\ req.date \notin RealDateInputs ) =>
      /\ req.calls = <<>>
      /\ req.pc \notin {"loop", "await"}
      /\ ( /\ req.pc = "done"
           /\ req.header_present
           /\ APP_TOKEN # ""
           /\ req.x_app_token = APP_TOKEN
           /\ SKYNET_BASE_URL # "" ) =>
           /\ req.status_code = 400
           /\ req.exc = "HTTPException"

C6_Witness ==
    /\ req.route = "skynet"
    /\ req.pc = "done"
    /\ req.date = <<"2","0","2","5","-","0","2","-","2","9">>
    /\ req.handler_ran
    /\ req.status_code = 400
    /\ req.calls = <<>>

\* C7: a request without the X-App-Token header ends with 401 Unauthorized
\* and no upstream call.
C7_MissingHeaderUnauthorized ==
    ( /\ req.pc \notin {"idle", "auth"}
      /\ ~req.header_present ) =>
      /\ req.pc = "done"
      /\ req.status_code = 401
      /\ req.calls = <<>>

\* C8: for a request that carries X-App-Token, an unconfigured APP_TOKEN
\* gives 500 whatever the header says, otherwise a different header value
\* gives 401; in both cases the handler does not run and nothing is sent
\* upstream.  The handler runs only when the header equals a non-empty
\* APP_TOKEN.
C8_AuthGate ==
    /\ ( /\ req.pc \notin {"idle", "auth"}
         /\ req.header_present
         /\ APP_TOKEN = "" ) =>
         /\ req.pc = "done" /\ req.status_code = 500
         /\ ~req.handler_ran /\ req.calls = <<>>
    /\ ( /\ req.pc \notin {"idle", "auth"}
         /\ req.header_present
         /\ APP_TOKEN # ""
         /\ req.x_app_token # APP_TOKEN ) =>
         /\ req.pc = "done" /\ req.status_code = 401
         /\ ~req.handler_ran /\ req.calls = <<>>
    /\ (req.handler_ran \/ req.calls # <<>>) =>
         /\ req.header_present
         /\ APP_TOKEN # ""
         /\ req.x_app_token = APP_TOKEN

C8_Witness ==
    /\ req.pc = "done"
    /\ req.header_present
    /\ APP_TOKEN = ""
    /\ req.x_app_token = APP_TOKEN
    /\ req.status_code = 500
    /\ ~req.handler_ran

\* C9: a row whose field cannot be coerced is dropped alone: the response
\* is successful and carries the normalisation of the remaining rows.
C9_CoercionFailureDropsRow ==
    ( /\ req.route = "skynet"
      /\ req.pc = "done"
      /\ Len(req.outcomes) >= 1
      /\ req.outcomes[Len(req.outcomes)].kind = "response"
      /\ req.outcomes[Len(req.outcomes)].status = 200
      /\ req.outcomes[Len(req.outcomes)].body = "json"
      /\ req.outcomes[Len(req.outcomes)].data.t = "list" ) =>
      LET items == req.outcomes[Len(req.outcomes)].data.items
          Coerces(row) == NormaliseRow(row).kind # "raise"
      IN  /\ req.status_code = 200
          /\ req.prices = NormaliseRows(SelectSeq(items, Coerces), <<>>).prices

\* C10: an object of the row collection is in the output if and only if it
\* has an integer race number under "raceNo" or "raceNumber" and an integer
\* tab number under "tabNo" or "tabNumber", 0 included; other elements are
\* skipped.
C10_KeptIffIdentified ==
    ( /\ req.route = "skynet"
      /\ req.pc = "done"
      /\ req.status_code = 200
      /\ Len(req.outcomes) >= 1
      /\ req.outcomes[Len(req.outcomes)].kind = "response"
      /\ req.outcomes[Len(req.outcomes)].status = 200
      /\ req.outcomes[Len(req.outcomes)].body = "json"
      /\ req.outcomes[Len(req.outcomes)].data.t = "list" ) =>
      LET items == req.outcomes[Len(req.outcomes)].data.items
          IsInteger(v) == v.k \in {"int", "numstr"}
          Identified(row) ==
              /\ row.isdict
              /\ IsInteger(row.f["raceNo"]) \/ IsInteger(row.f["raceNumber"])
              /\ IsInteger(row.f["tabNo"]) \/ IsInteger(row.f["tabNumber"])
      IN  Len(req.prices) = Len(SelectSeq(items, Identified))

\* C11: in every kept row each canonical field carries the value under its
\* primary upstream name whenever the row has that name, and the value under
\* the alias only when the primary name is missing; rank is passed through.
C11_PrimaryNameWins ==
    ( /\ req.route = "skynet"
      /\ req.pc = "done"
      /\ req.status_code = 200
      /\ Len(req.outcomes) >= 1
      /\ req.outcomes[Len(req.outcomes)].kind = "response"
      /\ req.outcomes[Len(req.outcomes)].status = 200
      /\ req.outcomes[Len(req.outcomes)].body = "json"
      /\ req.outcomes[Len(req.outcomes)].data.t = "list"
      /\ Len(req.prices) = Len(req.outcomes[Len(req.outcomes)].data.items) ) =>
      LET items == req.outcomes[Len(req.outcomes)].data.items
          Pick(row, primary, alias) ==
              IF row.f[primary].k # "absent" THEN row.f[primary] ELSE Get(row, alias)
      IN  \A j \in 1..Len(items) :
            /\ req.prices[j].raceNumber = IntOf(Pick(items[j], "raceNo", "raceNumber")).n
            /\ req.prices[j].tabNumber = IntOf(Pick(items[j], "tabNo", "tabNumber")).n
            /\ req.prices[j].track = StrField(Pick(items[j], "venue", "track")).v
            /\ req.prices[j].price = FloatField(Pick(items[j], "aiPrice", "price")).v
            /\ req.prices[j].tabCurrentPrice =
                 FloatField(Pick(items[j], "tabPrice", "tabCurrentPrice")).v
            /\ req.prices[j].rank = IntField(Get(items[j], "rank")).v

\* C12: the row collection of a decoded document is the document itself
\* when it is a list; for an object the value under "rows" whenever that key
\* exists (an empty list included), otherwise the value under "prices",
\* otherwise empty; any other document gives an empty collection, returned
\* as a successful response.
C12_ShapeDetermination ==
    ( /\ req.route = "skynet"
      /\ req.pc = "done"
      /\ Len(req.outcomes) >= 1
      /\ req.outcomes[Len(req.outcomes)].kind = "response"
      /\ req.outcomes[Len(req.outcomes)].status = 200
      /\ req.outcomes[Len(req.outcomes)].body = "json" ) =>
      LET data == req.outcomes[Len(req.outcomes)].data
          collection ==
              CASE data.t = "list" -> JList(data.items)
                [] data.t = "dict" ->
                     IF data.rows.t # "absent" THEN data.rows
                     ELSE IF data.prices.t # "absent" THEN data.prices
                     ELSE JList(<<>>)
                [] OTHER -> JList(<<>>)
      IN  /\ data.t \notin {"list", "dict"} =>
               req.status_code = 200 /\ req.prices = <<>>
          /\ (req.status_code = 200 /\ collection.t = "list") =>
               req.prices = NormaliseRows(collection.items, <<>>).prices

\* C13: for every valid ISO date the route generates exactly two variants,
\* the lowercase-month one first and the title-case one second, each a
\* two-digit day, a three-letter month abbreviation and a four-digit year,
\* both naming the date of the request.
C13_TwoVariants ==
    ( /\ req.route = "skynet"
      /\ req.date \in RealDateInputs
      /\ req.pc \in {"loop", "await"} \/ Len(req.calls) >= 1 ) =>
      LET title == << <<"J","a","n">>, <<"F","e","b">>, <<"M","a","r">>,
                      <<"A","p","r">>, <<"M","a","y">>, <<"J","u","n">>,
                      <<"J","u","l">>, <<"A","u","g">>, <<"S","e","p">>,
                      <<"O","c","t">>, <<"N","o","v">>, <<"D","e","c">> >>
          small == << <<"j","a","n">>, <<"f","e","b">>, <<"m","a","r">>,
                      <<"a","p","r">>, <<"m","a","y">>, <<"j","u","n">>,
                      <<"j","u","l">>, <<"a","u","g">>, <<"s","e","p">>,
                      <<"o","c","t">>, <<"n","o","v">>, <<"d","e","c">> >>
          month == NumVal(SubSeq(req.date, 6, 7))
          Shaped(v, abbr) ==
              /\ Len(v) = 11
              /\ SubSeq(v, 1, 2) = SubSeq(req.date, 9, 10)
              /\ v[3] = "-"
              /\ SubSeq(v, 4, 6) = abbr[month]
              /\ v[7] = "-"
              /\ SubSeq(v, 8, 11) = SubSeq(req.date, 1, 4)
      IN  /\ Len(req.date_variants) = 2
          /\ Shaped(req.date_variants[1], small)
          /\ Shaped(req.date_variants[2], title)

\* C14: without a configured base URL every authenticated /skynet/prices
\* request ends with 500 and no upstream call, whether or not its date is
\* valid: the configuration check comes before the date check.
C14_MisconfiguredFailsFast ==
    ( /\ req.route = "skynet"
      /\ req.header_present
      /\ APP_TOKEN # ""
      /\ req.x_app_token = APP_TOKEN
      /\ SKYNET_BASE_URL = ""
      /\ req.pc \notin {"idle", "auth", "handler"} ) =>
      /\ req.pc = "done"
      /\ req.status_code = 500
      /\ req.exc = "HTTPException"
      /\ req.detail = "SkyNet not configured"
      /\ req.calls = <<>>

C14_Witness ==
    /\ req.route = "skynet"
    /\ req.handler_ran
    /\ SKYNET_BASE_URL = ""
    /\ req.date = <<"2","0","2","5","-","1","3","-","0","1">>
    /\ req.pc = "done"
    /\ req.status_code = 500

\* C15: the rows of a successful response are the kept rows of the accepted
\* payload in upstream order: each output row is the image of one upstream
\* row, positions strictly increase, every kept row appears once, and
\* nothing comes from another attempt; with no accepted payload there are
\* no rows.
C15_DocumentOrder ==
    ( /\ req.route = "skynet"
      /\ req.pc = "done"
      /\ req.status_code = 200 ) =>
      LET last == req.outcomes[Len(req.outcomes)]
          accepted == /\ Len(req.outcomes) >= 1
                      /\ last.kind = "response"
                      /\ last.status < 400
          items == IF RawRows(last.data).t = "list"
                   THEN RawRows(last.data).items ELSE <<>>
          Kept(row) == NormaliseRow(row).kind = "append"
      IN  IF ~accepted THEN req.prices = <<>>
          ELSE /\ Len(req.prices) = Len(SelectSeq(items, Kept))
               /\ \E at \in [1..Len(req.prices) -> 1..Len(items)] :
                    /\ \A j, k \in 1..Len(req.prices) : j < k => at[j] < at[k]
                    /\ \A j \in 1..Len(req.prices) :
                         /\ Kept(items[at[j]])
                         /\ req.prices[j] = NormaliseRow(items[at[j]]).price

C15_Witness ==
    /\ req.route = "skynet"
    /\ req.pc = "done"
    /\ req.status_code = 200
    /\ Len(req.outcomes) = 2
    /\ Len(req.prices) = 2
    /\ req.prices[1].raceNumber = 2
    /\ req.prices[2].raceNumber = 1

\* C16: a chat request that reaches iReel makes exactly one POST, never a
\* second; an upstream status of 400 or more is forwarded with the same
\* status, an empty body included; a non-error response with an empty or
\* non-JSON body gives 502; a transport failure gives 502.
C16_ChatOutcomeMapping ==
    req.route = "ireel" =>
      /\ Len(req.calls) <= 1
      /\ Len(req.outcomes) <= 1
      /\ req.pc = "await" => Len(req.calls) = 1
      /\ Len(req.outcomes) = 1 =>
           LET o == req.outcomes[1]
           IN  /\ Len(req.calls) = 1
               /\ req.calls[1].method = "POST"
               /\ req.pc = "done"
               /\ o.kind # "response" => req.status_code = 502
               /\ (o.kind = "response" /\ o.status >= 400) =>
                    req.status_code = o.status
               /\ (o.kind = "response" /\ o.status < 400 /\ o.body # "json") =>
                    req.status_code = 502

C16_Witness ==
    /\ req.route = "ireel"
    /\ req.pc = "done"
    /\ Len(req.outcomes) = 1
    /\ req.outcomes[1].kind = "response"
    /\ req.outcomes[1].status = 404
    /\ req.outcomes[1].body = "empty"
    /\ req.status_code = 404
    /\ req.detail = "iReel error"

\* C18 (as stated): a response that decodes as JSON but has an unexpected
\* shape is recovered like a transport failure: the loop advances to the
\* next variant, and only after the last variant does the request end, with
\* the empty result.
C18_UnexpectedShapeAdvances ==
    \A j \in 1..Len(req.outcomes) :
      ( /\ req.route = "skynet"
        /\ req.outcomes[j].kind = "response"
        /\ req.outcomes[j].status < 400
        /\ req.outcomes[j].body = "json"
        /\ \/ req.outcomes[j].data.t \notin {"list", "dict"}
           \/ /\ req.outcomes[j].data.t = "dict"
              /\ req.outcomes[j].data.rows.t = "absent"
              /\ req.outcomes[j].data.prices.t = "absent" ) =>
        \/ Len(req.calls) > j
        \/ req.pc = "loop" /\ req.i = j + 1 /\ req.last_exc # "none"
        \/ j = 2 /\ req.pc = "done" /\ req.status_code = 200 /\ req.prices = <<>>

\* C18 (amended): a response that decodes as JSON but is neither a list nor
\* an object with "rows" or "prices" is accepted as a valid answer: the
\* request ends at that attempt with a successful, empty response and no
\* further variant is tried.
C18_UnexpectedShapeAccepted ==
    \A j \in 1..Len(req.outcomes) :
      ( /\ req.route = "skynet"
        /\ req.outcomes[j].kind = "response"
        /\ req.outcomes[j].status < 400
        /\ req.outcomes[j].body = "json"
        /\ \/ req.outcomes[j].data.t \notin {"list", "dict"}
           \/ /\ req.outcomes[j].data.t = "dict"
              /\ req.outcomes[j].data.rows.t = "absent"
              /\ req.outcomes[j].data.prices.t = "absent" ) =>
        /\ j = Len(req.outcomes)
        /\ Len(req.calls) = j
        /\ req.pc = "done"
        /\ req.status_code = 200
        /\ req.exc = "none"
        /\ req.prices = <<>>

C18_Witness ==
    /\ req.route = "skynet"
    /\ req.pc = "done"
    /\ Len(req.outcomes) = 1
    /\ req.outcomes[1].body = "json"
    /\ req.outcomes[1].data.t = "int"
    /\ Len(req.calls) = 1
    /\ req.status_code = 200
    /\ req.prices = <<>>

\* C19: in every interleaving of in-flight /skynet/prices requests, each
\* request's variants, current variant, last recorded failure and result
\* rows are determined by its own date and the outcomes of its own calls,
\* and the module-level configuration never changes.
C19_RequestsIsolated ==
    /\ [](\A c \in Clients :
            LET r == reqs[c]
                Failed(o) == o.kind # "response" \/ o.status >= 400
                failures == { j \in 1..Len(r.outcomes) : Failed(r.outcomes[j]) }
                lastFailed == r.outcomes[CHOOSE j \in failures :
                                           \A k \in failures : k <= j]
                last == r.outcomes[Len(r.outcomes)]
            IN  IF r.pc \in {"idle", "auth", "handler"} \/ ~fromisoformat(r.date).ok
                   \/ SKYNET_BASE_URL = "" \/ APP_TOKEN # r.x_app_token
                THEN /\ r.date_variants = <<>> /\ r.i = 1 /\ r.last_exc = "none"
                     /\ r.prices = <<>> /\ r.calls = <<>>
                ELSE /\ r.date_variants = DateVariants(fromisoformat(r.date))
                     /\ r.i = 1 + Cardinality(failures)
                     /\ r.last_exc = IF failures = {} THEN "none"
                                     ELSE IF lastFailed.kind = "response"
                                     THEN "HTTPStatusError" ELSE lastFailed.kind
                     /\ r.prices = IF r.outcomes # <<>> /\ ~Failed(last)
                                      /\ r.status_code = 200
                                   THEN Normalise(last.data).prices ELSE <<>>
                     /\ \A j \in 1..Len(r.calls) :
                          r.calls[j].meetingDate = r.date_variants[j])
    /\ [][Config' = Config]_vars

C19_Witness ==
    /\ reqs["a"].pc = "await"
    /\ reqs["a"].i = 2
    /\ reqs["a"].last_exc = "ReadTimeout"
    /\ reqs["b"].pc = "await"
    /\ reqs["b"].i = 1
    /\ reqs["b"].date # reqs["a"].date

\* C20: every /skynet/prices request eventually produces a response; the
\* attempt loop moves forward through the variants one at a time, never
\* calls with the same variant twice, and the request ends in Success (the
\* rows of an accepted response), a fail-fast error (rejected before any
\* upstream call) or Exhausted (both attempts failed, empty result).
C20_Terminates ==
    /\ (req.route = "skynet") ~> (req.pc = "done")
    /\ [][req.i' \in {req.i, req.i + 1}]_vars
    /\ [](\A j, k \in 1..Len(req.calls) :
            j # k => req.calls[j].meetingDate # req.calls[k].meetingDate)
    /\ []( (req.route = "skynet" /\ req.pc = "done") =>
             LET Failed(o) == o.kind # "response" \/ o.status >= 400
                 last == req.outcomes[Len(req.outcomes)]
                 Success ==
                     /\ req.outcomes # <<>> /\ ~Failed(last)
                     /\ req.status_code = 200 /\ req.exc = "none"
                 FailFast ==
                     /\ req.calls = <<>>
                     /\ req.status_code \in {400, 401, 422, 500}
                     /\ req.exc \in {"HTTPException", "RequestValidationError"}
                 Exhausted ==
                     /\ Len(req.outcomes) = 2
                     /\ Failed(req.outcomes[1]) /\ Failed(req.outcomes[2])
                     /\ req.status_code = 200 /\ req.prices = <<>>
             IN  Success \/ FailFast \/ Exhausted )

====
